---- MODULE Spec2Model ----
(***************************************************************************)
(* AI visibility tracker: the response-analysis pipeline (checkVisibility, *)
(* the POST /api/check-visibility and GET /api/prompts handlers) and the   *)
(* run recorder (brands, prompt_runs, mentions) on its two backends.       *)
(* Strings are TLA+ strings; the text functions walk them character by     *)
(* character, as the JavaScript string and RegExp operations do.           *)
(***************************************************************************)
EXTENDS Integers, Sequences, FiniteSets, TLC

(***************************************************************************)
(* JavaScript string primitives                                            *)
(***************************************************************************)
UpperChars == "ABCDEFGHIJKLMNOPQRSTUVWXYZ"
LowerChars == "abcdefghijklmnopqrstuvwxyz"
DigitChars == "0123456789"

\* String.prototype.charAt: "" outside the string
CharAt(s, i) == IF i \in 1..Len(s) THEN SubSeq(s, i, i) ELSE ""

\* the characters a..b of s, cut at the end of the string
Slice(s, a, b) == SubSeq(s, a, IF b > Len(s) THEN Len(s) ELSE b)

\* index of character c in the string s, 0 when absent
IndexOfChar(s, c) ==
  IF \E i \in 1..Len(s) : CharAt(s, i) = c
    THEN CHOOSE i \in 1..Len(s) :
           CharAt(s, i) = c /\ \A j \in 1..(i - 1) : CharAt(s, j) # c
    ELSE 0

\* the lower-case letter of each upper-case letter
LowerOf ==
  [c \in {CharAt(UpperChars, i) : i \in 1..Len(UpperChars)} |->
     CharAt(LowerChars, IndexOfChar(UpperChars, c))]

LowerChar(c) == IF c \in DOMAIN LowerOf THEN LowerOf[c] ELSE c

\* String.prototype.toLowerCase, by halves
RECURSIVE ToLowerCase(_)
ToLowerCase(s) ==
  IF Len(s) <= 1 THEN LowerChar(s)
  ELSE ToLowerCase(SubSeq(s, 1, Len(s) \div 2))
       \o ToLowerCase(SubSeq(s, Len(s) \div 2 + 1, Len(s)))

\* \w of a RegExp: [A-Za-z0-9_]
WordChars ==
  {CharAt(s, i) : s \in {UpperChars, LowerChars, DigitChars, "_"}, i \in 1..26}
  \ {""}

IsWordChar(c) == c \in WordChars

\* \s of a RegExp and the characters String.prototype.trim removes
SpaceChars == {" ", "\t", "\n", "\r"}
IsSpace(c) == c \in SpaceChars

RECURSIVE TrimStart(_)
TrimStart(s) ==
  IF s # "" /\ IsSpace(Head(s)) THEN TrimStart(Tail(s)) ELSE s

RECURSIVE TrimEnd(_)
TrimEnd(s) ==
  IF s # "" /\ IsSpace(CharAt(s, Len(s)))
    THEN TrimEnd(SubSeq(s, 1, Len(s) - 1))
    ELSE s

Trim(s) == TrimEnd(TrimStart(s))

\* String.prototype.includes
Includes(s, sub) ==
  \E i \in 0..(Len(s) - Len(sub)) : SubSeq(s, i + 1, i + Len(sub)) = sub

\* Array.prototype.includes on a list
ListIncludes(list, x) == \E i \in 1..Len(list) : list[i] = x

\* Array.prototype.join(', ')
RECURSIVE Join(_)
Join(list) ==
  IF list = <<>> THEN ""
  ELSE IF Len(list) = 1 THEN list[1]
  ELSE list[1] \o ", " \o Join(Tail(list))

\* s.split('.')[0]
SplitDotFirst(s) ==
  IF IndexOfChar(s, ".") = 0 THEN s ELSE SubSeq(s, 1, IndexOfChar(s, ".") - 1)

(***************************************************************************)
(* Mention analyzer: extractBrandMentions                                  *)
(***************************************************************************)
\* the characters of the class [.!?]
SentenceEnds == {".", "!", "?"}

\* least index >= from of a character that is in chars (member) or is not in
\* chars (~member), 0 when there is none
FirstIndex(text, from, chars, member) ==
  LET found == {i \in from..Len(text) : (CharAt(text, i) \in chars) = member}
  IN  IF found = {} THEN 0 ELSE CHOOSE m \in found : \A o \in found : m <= o

\* text.split(/[.!?]+/): the fragments from index from on
RECURSIVE SplitSentences(_, _)
SplitSentences(text, from) ==
  LET stop == FirstIndex(text, from, SentenceEnds, TRUE)
      resume == FirstIndex(text, stop, SentenceEnds, FALSE)
  IN  IF stop = 0 THEN <<SubSeq(text, from, Len(text))>>
      ELSE <<SubSeq(text, from, stop - 1)>>
           \o SplitSentences(text, IF resume = 0 THEN Len(text) + 1 ELSE resume)

NonBlank(s) == Len(Trim(s)) > 0

\* text.split(/[.!?]+/).filter((s) => s.trim().length > 0)
Sentences(text) == SelectSeq(SplitSentences(text, 1), NonBlank)

\* \b between the characters k and k+1 of text (k = 0 is the start)
WordBoundary(text, k) ==
  LET before == k >= 1 /\ IsWordChar(CharAt(text, k))
      after  == k < Len(text) /\ IsWordChar(CharAt(text, k + 1))
  IN  before # after

\* one pattern character of the RegExp source against one text character,
\* flag i: the brand is put into the source unescaped, so "." is a wildcard
PatCharMatches(pc, tc) ==
  IF pc = "." THEN tc \notin {"\n", "\r"} ELSE LowerChar(tc) = LowerChar(pc)

\* new RegExp(source) is a SyntaxError: of the characters the brand names of
\* this model are made of (letters, digits, "_", " ", "!", "-", "." and "("),
\* only "(" can make the source invalid, by opening a group nothing closes
RegExpThrows(pat) == Includes(pat, "(") /\ ~Includes(pat, ")")

\* error.message of that SyntaxError, as V8 words it
RegExpError(pat) ==
  "Invalid regular expression: /\\b" \o pat \o "\\b/: Unterminated group"

\* new RegExp(`\\b${brandLower}\\b`, 'gi') matching at offset k
BrandMatchAt(text, k, pat) ==
  /\ k + Len(pat) <= Len(text)
  /\ WordBoundary(text, k)
  /\ \A i \in 1..Len(pat) : PatCharMatches(CharAt(pat, i), CharAt(text, k + i))
  /\ WordBoundary(text, k + Len(pat))

\* text.match(regex) with flag g: the matches from offset from on, leftmost
\* first; after an empty match the search moves on by one character
RECURSIVE CountBrandMatches(_, _, _)
CountBrandMatches(text, pat, from) ==
  LET found == {k \in from..(Len(text) - Len(pat)) : BrandMatchAt(text, k, pat)}
  IN  IF found = {} THEN 0
      ELSE LET k == CHOOSE m \in found : \A o \in found : m <= o
           IN  1 + CountBrandMatches(text, pat,
                                     IF Len(pat) = 0 THEN k + 1 ELSE k + Len(pat))

\* the sentences whose lower-cased text includes brandLower, trimmed
RECURSIVE ContextOf(_, _)
ContextOf(sentences, brandLower) ==
  IF sentences = <<>> THEN <<>>
  ELSE (IF Includes(ToLowerCase(Head(sentences)), brandLower)
          THEN <<Trim(Head(sentences))>> ELSE <<>>)
       \o ContextOf(Tail(sentences), brandLower)

extractBrandMentions(text, brands) ==
  [i \in 1..Len(brands) |->
     [brand |-> brands[i],
      count |-> CountBrandMatches(text, ToLowerCase(brands[i]), 0),
      context |-> ContextOf(Sentences(text), ToLowerCase(brands[i])),
      citationUrls |-> <<>>]]

(***************************************************************************)
(* Citation extractor: extractCitations                                    *)
(***************************************************************************)
\* the characters ending a match of [^\s\)]+
UrlStops == SpaceChars \cup {")"}
IsUrlStop(c) == c \in UrlStops
IsTrailingPunct(c) == c \in {".", ",", ";", "!", "?"}

\* /\[([^\]]+)\]\(([^)]+)\)/ matching with its "[" at index i:
\* <<url, index after the match>>, or <<>> when it does not match there
MarkdownLinkAt(text, i) ==
  IF CharAt(text, i) # "[" THEN <<>>
  ELSE LET j == FirstIndex(text, i + 1, {"]"}, TRUE)
       IN  IF j < i + 2 \/ CharAt(text, j + 1) # "(" THEN <<>>
           ELSE LET k == FirstIndex(text, j + 2, {")"}, TRUE)
                IN  IF k < j + 3 THEN <<>>
                    ELSE <<SubSeq(text, j + 2, k - 1), k + 1>>

\* the while loop over markdownLinkRegex.exec(text)
RECURSIVE MarkdownLinks(_, _)
MarkdownLinks(text, from) ==
  LET found == {i \in from..Len(text) : MarkdownLinkAt(text, i) # <<>>}
  IN  IF found = {} THEN <<>>
      ELSE LET i == CHOOSE m \in found : \A o \in found : m <= o
               hit == MarkdownLinkAt(text, i)
           IN  <<hit[1]>> \o MarkdownLinks(text, hit[2])

\* /(https?:\/\/[^\s\)]+)/ matching at index i: the index of its last
\* character, or 0 when it does not match there
PlainUrlEndAt(text, i) ==
  LET body == IF Slice(text, i, i + 7) = "https://" THEN i + 8
              ELSE IF Slice(text, i, i + 6) = "http://" THEN i + 7
              ELSE 0
  IN  IF body = 0 \/ body > Len(text) \/ IsUrlStop(CharAt(text, body)) THEN 0
      ELSE LET stop == FirstIndex(text, body, UrlStops, TRUE)
           IN  IF stop = 0 THEN Len(text) ELSE stop - 1

\* mutant: the trailing punctuation is kept
StripNoPunct(s) == s

\* match[1].replace(/[.,;!?]+$/, '')
RECURSIVE StripTrailingPunct(_)
StripTrailingPunct(s) ==
  IF s # "" /\ IsTrailingPunct(CharAt(s, Len(s)))
    THEN StripTrailingPunct(SubSeq(s, 1, Len(s) - 1))
    ELSE s

\* the while loop over urlRegex.exec(text), pushing onto citations
RECURSIVE PlainUrls(_, _, _)
PlainUrls(text, from, citations) ==
  LET found == {i \in from..Len(text) : PlainUrlEndAt(text, i) > 0}
  IN  IF found = {} THEN citations
      ELSE LET i == CHOOSE m \in found : \A o \in found : m <= o
               e == PlainUrlEndAt(text, i)
               url == StripTrailingPunct(SubSeq(text, i, e))
           IN  PlainUrls(text, e + 1,
                         IF ListIncludes(citations, url) THEN citations
                         ELSE Append(citations, url))

extractCitations(text) == PlainUrls(text, 1, MarkdownLinks(text, 1))


(***************************************************************************)
(* checkVisibility: the analysis of one provider response                  *)
(***************************************************************************)
Min(a, b) == IF a < b THEN a ELSE b

\* the filter of mentions.forEach: citations naming the brand
BrandCitations(brand, citations) ==
  LET Names(url) ==
        \/ Includes(ToLowerCase(url), ToLowerCase(brand))
        \/ Includes(ToLowerCase(brand), SplitDotFirst(ToLowerCase(url)))
  IN  SelectSeq(citations, Names)

\* mutant: the citations are attributed whatever the count
AttributedCitationsAnyCount(mention, citations) ==
  IF Len(BrandCitations(mention.brand, citations)) = 0 /\ Len(citations) > 0
    THEN SubSeq(citations, 1, Min(2, Len(citations)))
    ELSE BrandCitations(mention.brand, citations)

\* mutant: no fallback to the first two citations
AttributedCitationsNoFallback(mention, citations) ==
  IF mention.count > 0 THEN BrandCitations(mention.brand, citations)
  ELSE mention.citationUrls

\* mention.citationUrls after the forEach over mentions
AttributedCitations(mention, citations) ==
  IF mention.count > 0
    THEN IF Len(BrandCitations(mention.brand, citations)) = 0 /\ Len(citations) > 0
           THEN SubSeq(citations, 1, Min(2, Len(citations)))
           ELSE BrandCitations(mention.brand, citations)
    ELSE mention.citationUrls

\* the mentions checkVisibility returns for a response text
AnalyzeMentions(text, brands) ==
  LET found == extractBrandMentions(text, brands)
      citations == extractCitations(text)
  IN  [i \in 1..Len(brands) |->
         [found[i] EXCEPT !.citationUrls = AttributedCitations(found[i], citations)]]

\* mentions.reduce((sum, m) => sum + m.count, 0)
RECURSIVE SumCounts(_)
SumCounts(mentions) ==
  IF mentions = <<>> THEN 0 ELSE Head(mentions).count + SumCounts(Tail(mentions))

\* mutant: the share is cut to one decimal instead of rounded
calculateCitationShareTruncated(brandMentions, totalMentions) ==
  IF totalMentions = 0 THEN 0
  ELSE (brandMentions * 1000) \div totalMentions

\* calculateCitationShare, in tenths of a percent (toFixed(1))
calculateCitationShare(brandMentions, totalMentions) ==
  IF totalMentions = 0 THEN 0
  ELSE (2 * brandMentions * 1000 + totalMentions) \div (2 * totalMentions)

\* mutant: the score is cut to one decimal instead of rounded
calculateVisibilityScoreTruncated(mentions, totalBrands) ==
  IF totalBrands = 0 THEN 0
  ELSE (Len(SelectSeq(mentions, LAMBDA m : m.count > 0)) * 1000) \div totalBrands

\* calculateVisibilityScore, in tenths of a percent (toFixed(1))
calculateVisibilityScore(mentions, totalBrands) ==
  IF totalBrands = 0 THEN 0
  ELSE LET mentionedBrands == Len(SelectSeq(mentions, LAMBDA m : m.count > 0))
       IN  (2 * mentionedBrands * 1000 + totalBrands) \div (2 * totalBrands)


(***************************************************************************)
(* State                                                                   *)
(***************************************************************************)
VARIABLES
  backend,     \* isUsingSupabase(): "postgres" or "supabase", fixed at start
  providers,   \* AIService.providers: the configured provider names
  brands,      \* table brands, rows [id, name] in insertion order
  brandSeq,    \* the last value of brands_id_seq
  runs,        \* table prompt_runs, rows in insertion order (id = position)
  mentions,    \* table mentions, rows in insertion order
  mentionSeq,  \* the last value of mentions_id_seq
  proc,        \* per request handler: its position and locals
  started,     \* requests received so far
  runLog,      \* history: per run id, the brands of its request, and whether
               \* the request has been answered
  lastCall,    \* harness: the last direct call of a recorder operation
  prevCall     \* harness: the call before it

vars == <<backend, providers, brands, brandSeq, runs, mentions, mentionSeq,
          proc, started, runLog, lastCall, prevCall>>

store == <<brands, brandSeq, runs, mentions, mentionSeq>>

\* bounds of the model
NumProcs == 2
MaxRequests == 2

Procs == 1..NumProcs

(***************************************************************************)
(* JSON values of a request body                                           *)
(***************************************************************************)
Undef == [t |-> "undefined"]
Str(v) == [t |-> "string", v |-> v]
Arr(v) == [t |-> "array", v |-> v]
Bool(v) == [t |-> "boolean", v |-> v]

\* JavaScript truthiness: !x is ~Truthy(x)
Truthy(x) ==
  CASE x.t = "undefined" -> FALSE
    [] x.t = "string" -> x.v # ""
    [] x.t = "boolean" -> x.v
    [] x.t = "array" -> TRUE

Body(category, brandList, provider, isCompetitorMode, mainBrand) ==
  [category |-> category, brands |-> brandList, provider |-> provider,
   isCompetitorMode |-> isCompetitorMode, mainBrand |-> mainBrand]

(***************************************************************************)
(* Run recorder: the queries of BrandModel, PromptRunModel, MentionModel   *)
(***************************************************************************)
\* s LIKE pat: "%" any run of characters, "_" any one character
RECURSIVE LikeMatch(_, _)
LikeMatch(s, pat) ==
  IF pat = "" THEN s = ""
  ELSE IF Head(pat) = "%"
    THEN LikeMatch(s, Tail(pat)) \/ (s # "" /\ LikeMatch(Tail(s), pat))
    ELSE /\ s # ""
         /\ (Head(pat) = "_" \/ Head(pat) = Head(s))
         /\ LikeMatch(Tail(s), Tail(pat))

\* mutant: the lookup compares the names as they are
PgFindBrandExact(table, name) == {i \in 1..Len(table) : table[i].name = name}

\* SELECT * FROM brands WHERE LOWER(name) = LOWER($1): the matching rows
PgFindBrand(table, name) ==
  {i \in 1..Len(table) : ToLowerCase(table[i].name) = ToLowerCase(name)}

\* .from('brands').select('*').ilike('name', name): the matching rows
SupabaseFindBrand(table, name) ==
  {i \in 1..Len(table) : LikeMatch(ToLowerCase(table[i].name), ToLowerCase(name))}

FindBrand(table, name) ==
  IF backend = "supabase" THEN SupabaseFindBrand(table, name)
  ELSE PgFindBrand(table, name)

\* name VARCHAR(255) UNIQUE NOT NULL: an insert of name conflicts
NameTaken(table, name) == \E i \in 1..Len(table) : table[i].name = name

\* INSERT INTO brands (name) VALUES ($1) RETURNING *
InsertBrand(table, id, name) == Append(table, [id |-> id, name |-> name])

\* INSERT INTO prompt_runs (...) VALUES ($1, $2, $3, $4) RETURNING *
InsertRun(table, category, prompt, rawResponse, aiProvider) ==
  Append(table, [id |-> Len(table) + 1, category |-> category, prompt |-> prompt,
                 raw_response |-> rawResponse, ai_provider |-> aiProvider])

\* UNIQUE(prompt_run_id, brand_id): the row of the pair, if any
MentionRows(table, runId, brandId) ==
  {i \in 1..Len(table) :
     table[i].prompt_run_id = runId /\ table[i].brand_id = brandId}

\* mutant: the row is written with mentioned set, whatever the count
UpsertMentionFlagSet(table, id, runId, brandId, mentioned, mentionCount, context, citationUrls) ==
  IF MentionRows(table, runId, brandId) = {}
    THEN Append(table, [id |-> id, prompt_run_id |-> runId, brand_id |-> brandId,
                        mentioned |-> TRUE, mention_count |-> mentionCount,
                        context |-> context, citation_urls |-> citationUrls])
    ELSE [i \in 1..Len(table) |->
            IF i \in MentionRows(table, runId, brandId)
              THEN [table[i] EXCEPT !.mentioned = TRUE,
                                    !.mention_count = mentionCount,
                                    !.context = context,
                                    !.citation_urls = citationUrls]
              ELSE table[i]]

\* mutant: a plain INSERT, without ON CONFLICT
UpsertMentionAlwaysInsert(table, id, runId, brandId, mentioned, mentionCount, context, citationUrls) ==
  Append(table, [id |-> id, prompt_run_id |-> runId, brand_id |-> brandId,
                 mentioned |-> mentioned, mention_count |-> mentionCount,
                 context |-> context, citation_urls |-> citationUrls])

\* INSERT INTO mentions ... ON CONFLICT (prompt_run_id, brand_id) DO UPDATE SET
\* mentioned, mention_count, context, citation_urls = EXCLUDED.*;
\* and .upsert({...}, {onConflict: 'prompt_run_id,brand_id'})
UpsertMention(table, id, runId, brandId, mentioned, mentionCount, context, citationUrls) ==
  IF MentionRows(table, runId, brandId) = {}
    THEN Append(table, [id |-> id, prompt_run_id |-> runId, brand_id |-> brandId,
                        mentioned |-> mentioned, mention_count |-> mentionCount,
                        context |-> context, citation_urls |-> citationUrls])
    ELSE [i \in 1..Len(table) |->
            IF i \in MentionRows(table, runId, brandId)
              THEN [table[i] EXCEPT !.mentioned = mentioned,
                                    !.mention_count = mentionCount,
                                    !.context = context,
                                    !.citation_urls = citationUrls]
              ELSE table[i]]


(***************************************************************************)
(* POST /api/check-visibility and checkVisibility, one action per await    *)
(***************************************************************************)
IdleProc ==
  [pc |-> "idle", route |-> "", body |-> Body(Undef, Undef, Undef, Undef, Undef),
   query |-> [limit |-> Undef, offset |-> Undef, brand |-> Undef],
   aiProvider |-> "", prompt |-> "", text |-> "", mentions |-> <<>>, promptRunId |-> 0,
   idx |-> 0, brandId |-> 0, status |-> 0, error |-> "", data |-> <<>>,
   providerCalls |-> 0, storageOps |-> 0, storageError |-> FALSE]

validProviders == <<"openai", "anthropic", "groq">>

\* validProviders.includes(provider) ? provider : 'openai'
ResolveProvider(provider) ==
  IF provider.t = "string" /\ ListIncludes(validProviders, provider.v)
    THEN provider.v
    ELSE "openai"

\* mutant: the competitor-mode check is missing
PostValidationErrorNoMainBrand(body) ==
  IF ~Truthy(body.category) \/ body.category.t # "string"
    THEN "Category is required and must be a string"
  ELSE IF ~Truthy(body.brands) \/ body.brands.t # "array" \/ Len(body.brands.v) = 0
    THEN "Brands array is required and must not be empty"
  ELSE ""

\* the 400 answers of POST, "" when the body passes validation
PostValidationError(body) ==
  IF ~Truthy(body.category) \/ body.category.t # "string"
    THEN "Category is required and must be a string"
  ELSE IF ~Truthy(body.brands) \/ body.brands.t # "array" \/ Len(body.brands.v) = 0
    THEN "Brands array is required and must not be empty"
  ELSE IF Truthy(body.isCompetitorMode) /\ ~Truthy(body.mainBrand)
    THEN "Main brand is required when competitor mode is enabled"
  ELSE ""

\* the template both prompt generators share, around the brand list
PromptHead(category) ==
  "You are a helpful assistant providing recommendations. When asked about "
  \o category
  \o ", please provide a comprehensive answer that mentions specific brands and tools when relevant.\n\n"
  \o "Question: What are the best options for " \o category \o "?\n\n"
  \o "Please provide:\n"
  \o "1. A detailed answer mentioning specific brands and tools\n"
  \o "2. Include URLs/citations when mentioning brands (format: [brand name](url))\n"
  \o "3. Explain the strengths and use cases for each option\n\n"
  \o "Brands to consider: "

PromptTail ==
  "\n\nProvide a natural, helpful response as if answering a user's question."

generateVisibilityPrompt(category, brandList) ==
  PromptHead(category) \o Join(brandList) \o PromptTail

generateCompetitorPrompt(category, mainBrand, competitorBrands) ==
  PromptHead(category) \o mainBrand \o ", " \o Join(competitorBrands) \o PromptTail

\* the prompt string checkVisibility stores with the run
StoredPrompt(body) ==
  IF Truthy(body.isCompetitorMode) /\ Truthy(body.mainBrand)
    THEN "Competitor analysis for " \o body.category.v \o " - Main brand: "
         \o body.mainBrand.v \o ", Competitors: " \o Join(body.brands.v)
    ELSE "Visibility check for " \o body.category.v \o " - Brands: "
         \o Join(body.brands.v)

\* NextResponse.json({success: false, error}, {status})
Fail(rec, status, error) ==
  [rec EXCEPT !.pc = "done", !.status = status, !.error = error]

\* the VisibilityResult of checkVisibility, answered with status 200
Succeed(rec) ==
  [rec EXCEPT !.pc = "done", !.status = 200,
     !.data = <<[category |-> rec.body.category.v,
                 brands |-> rec.body.brands.v,
                 mentions |-> rec.mentions,
                 totalMentions |-> SumCounts(rec.mentions),
                 promptRunId |-> rec.promptRunId]>>]

\* the run of rec, if it has one, is marked answered
Answered(log, rec) ==
  [i \in 1..Len(log) |->
     IF i = rec.promptRunId THEN [log[i] EXCEPT !.answered = TRUE] ELSE log[i]]

\* POST: validation, provider resolution, and checkVisibility up to the
\* provider query of AIService.queryAI
Post(p, body) ==
  /\ proc[p].pc \in {"idle", "done"}
  /\ started < MaxRequests
  /\ started' = started + 1
  /\ LET rec == [IdleProc EXCEPT !.route = "POST /api/check-visibility", !.body = body]
         aiProvider == ResolveProvider(body.provider)
     IN  proc' = [proc EXCEPT ![p] =
           IF PostValidationError(body) # ""
             THEN Fail(rec, 400, PostValidationError(body))
           ELSE IF aiProvider \notin providers
             THEN Fail([rec EXCEPT !.aiProvider = aiProvider], 500,
                       "Provider " \o aiProvider
                       \o " is not configured or available. Please check your API keys.")
           ELSE [rec EXCEPT !.pc = "provider", !.aiProvider = aiProvider,
                            !.prompt = generateVisibilityPrompt(body.category.v,
                                                                body.brands.v),
                            !.providerCalls = 1]]
  /\ UNCHANGED <<backend, providers, store, runLog, lastCall, prevCall>>

\* the brands whose RegExp cannot be built, in the order of the request
ThrowingBrands(brandList) ==
  SelectSeq(brandList, LAMBDA b : RegExpThrows(ToLowerCase(b)))

\* the provider answers: extractBrandMentions, citation attribution; the
\* SyntaxError of new RegExp leaves checkVisibility through its outer catch
\* and is answered 500 by the route
ProviderRespond(p, text) ==
  /\ proc[p].pc = "provider"
  /\ proc' = [proc EXCEPT ![p] =
       IF ThrowingBrands(proc[p].body.brands.v) # <<>>
         THEN Fail([@ EXCEPT !.text = text], 500,
                   RegExpError(ToLowerCase(Head(ThrowingBrands(proc[p].body.brands.v)))))
         ELSE [@ EXCEPT !.pc = "createRun", !.text = text,
                        !.mentions = AnalyzeMentions(text, proc[p].body.brands.v)]]
  /\ UNCHANGED <<backend, providers, store, started, runLog, lastCall, prevCall>>

ProviderLabel(name) ==
  CASE name = "openai" -> "OpenAI"
    [] name = "anthropic" -> "Anthropic"
    [] name = "groq" -> "Groq"

\* mutant: a failed provider query is issued once more before giving up
ProviderFailRetried(p, message) ==
  /\ proc[p].pc = "provider"
  /\ proc' = [proc EXCEPT ![p] =
       IF @.providerCalls < 2
         THEN [@ EXCEPT !.providerCalls = @ + 1]
         ELSE Fail(@, 500, ProviderLabel(@.aiProvider) \o " API error: " \o message)]
  /\ UNCHANGED <<backend, providers, store, started, runLog, lastCall, prevCall>>

\* mutant: the failed query is recorded as a run without a response
ProviderFailRecorded(p, message) ==
  /\ proc[p].pc = "provider"
  /\ runs' = InsertRun(runs, proc[p].body.category.v, StoredPrompt(proc[p].body),
                       "", proc[p].aiProvider)
  /\ runLog' = Append(runLog, [brands |-> proc[p].body.brands.v, answered |-> TRUE])
  /\ proc' = [proc EXCEPT ![p] =
       Fail(@, 500, ProviderLabel(@.aiProvider) \o " API error: " \o message)]
  /\ UNCHANGED <<backend, providers, brands, brandSeq, mentions, mentionSeq,
                 started, lastCall, prevCall>>

\* the provider query throws: rethrown by checkVisibility, answered 500
ProviderFail(p, message) ==
  /\ proc[p].pc = "provider"
  /\ proc' = [proc EXCEPT ![p] =
       Fail(@, 500, ProviderLabel(@.aiProvider) \o " API error: " \o message)]
  /\ UNCHANGED <<backend, providers, store, started, runLog, lastCall, prevCall>>

\* PromptRunModel.create
CreateRun(p) ==
  /\ proc[p].pc = "createRun"
  /\ runs' = InsertRun(runs, proc[p].body.category.v, StoredPrompt(proc[p].body),
                       proc[p].text, proc[p].aiProvider)
  /\ runLog' = Append(runLog, [brands |-> proc[p].body.brands.v, answered |-> FALSE])
  /\ proc' = [proc EXCEPT ![p] =
       [@ EXCEPT !.pc = "brandSelect", !.promptRunId = Len(runs) + 1, !.idx = 1,
                 !.storageOps = @ + 1]]
  /\ UNCHANGED <<backend, providers, brands, brandSeq, mentions, mentionSeq,
                 started, lastCall, prevCall>>

\* mutant: the brand list is walked from its end
BrandNameFromEnd(rec) == rec.body.brands.v[Len(rec.body.brands.v) - rec.idx + 1]

\* the brand of the current iteration of for (const brandName of brands)
BrandName(rec) == rec.body.brands.v[rec.idx]

\* BrandModel.getOrCreate: the lookup; rows[0] of a query without ORDER BY is
\* any of the matching rows
BrandSelect(p) ==
  /\ proc[p].pc = "brandSelect"
  /\ LET hits == FindBrand(brands, BrandName(proc[p]))
     IN  IF hits = {}
           THEN proc' = [proc EXCEPT ![p] =
                  [@ EXCEPT !.pc = "brandInsert", !.storageOps = @ + 1]]
           ELSE \E i \in hits :
                  proc' = [proc EXCEPT ![p] =
                    [@ EXCEPT !.pc = "mentionUpsert", !.brandId = brands[i].id,
                              !.storageOps = @ + 1]]
  /\ UNCHANGED <<backend, providers, store, started, runLog, lastCall, prevCall>>

\* BrandModel.getOrCreate: the insert. A uniqueness conflict (23505) is thrown
\* by the PostgreSQL model and caught by checkVisibility; the Supabase model
\* fetches again
BrandInsert(p) ==
  /\ proc[p].pc = "brandInsert"
  /\ brandSeq' = brandSeq + 1
  /\ IF NameTaken(brands, BrandName(proc[p]))
       THEN /\ brands' = brands
            /\ runLog' = IF backend = "supabase" THEN runLog
                         ELSE Answered(runLog, proc[p])
            /\ proc' = [proc EXCEPT ![p] =
                 IF backend = "supabase"
                   THEN [@ EXCEPT !.pc = "brandRefetch", !.storageOps = @ + 1]
                   ELSE Succeed([@ EXCEPT !.storageOps = @ + 1,
                                          !.storageError = TRUE])]
       ELSE /\ brands' = InsertBrand(brands, brandSeq + 1, BrandName(proc[p]))
            /\ runLog' = runLog
            /\ proc' = [proc EXCEPT ![p] =
                 [@ EXCEPT !.pc = "mentionUpsert", !.brandId = brandSeq + 1,
                           !.storageOps = @ + 1]]
  /\ UNCHANGED <<backend, providers, runs, mentions, mentionSeq, started,
                 lastCall, prevCall>>

\* SupabaseBrandModel.getOrCreate after 23505: fetch the row again
BrandRefetch(p) ==
  /\ proc[p].pc = "brandRefetch"
  /\ \E i \in SupabaseFindBrand(brands, BrandName(proc[p])) :
       proc' = [proc EXCEPT ![p] =
         [@ EXCEPT !.pc = "mentionUpsert", !.brandId = brands[i].id,
                   !.storageOps = @ + 1]]
  /\ UNCHANGED <<backend, providers, store, started, runLog, lastCall, prevCall>>

\* mentions.find(m => m.brand.toLowerCase() === brandName.toLowerCase())
FindMention(found, brandName) ==
  LET hits == {i \in 1..Len(found) :
                 ToLowerCase(found[i].brand) = ToLowerCase(brandName)}
  IN  IF hits = {} THEN <<>>
      ELSE <<found[CHOOSE m \in hits : \A o \in hits : m <= o]>>

\* MentionModel.createOrUpdate for the brand at idx, then the next brand or
\* the answer
MentionUpsert(p) ==
  /\ proc[p].pc = "mentionUpsert"
  /\ LET rec == proc[p]
         hit == FindMention(rec.mentions, BrandName(rec))
         last == rec.idx = Len(rec.body.brands.v)
         next == [rec EXCEPT !.storageOps = @ + 1, !.idx = @ + 1, !.brandId = 0,
                             !.pc = "brandSelect"]
     IN  /\ mentions' = UpsertMention(mentions, mentionSeq + 1, rec.promptRunId,
                          rec.brandId,
                          IF hit = <<>> THEN FALSE ELSE hit[1].count > 0,
                          IF hit = <<>> THEN 0 ELSE hit[1].count,
                          IF hit = <<>> THEN <<>> ELSE hit[1].context,
                          IF hit = <<>> THEN <<>> ELSE hit[1].citationUrls)
         /\ mentionSeq' = mentionSeq + 1
         /\ proc' = [proc EXCEPT ![p] = IF last THEN Succeed(next) ELSE next]
         /\ runLog' = IF last THEN Answered(runLog, rec) ELSE runLog
  /\ UNCHANGED <<backend, providers, brands, brandSeq, runs, started,
                 lastCall, prevCall>>

\* mutant: the failed recording is rolled back, the run row and its mention
\* rows are deleted
StorageFailRollsBack(p) ==
  /\ \/ proc[p].pc \in {"createRun", "brandInsert", "mentionUpsert", "brandRefetch"}
     \/ proc[p].pc = "brandSelect" /\ backend = "postgres"
  /\ proc' = [proc EXCEPT ![p] =
       Succeed([@ EXCEPT !.storageOps = @ + 1, !.storageError = TRUE])]
  /\ runs' = SelectSeq(runs, LAMBDA r : r.id # proc[p].promptRunId)
  /\ mentions' = SelectSeq(mentions, LAMBDA m : m.prompt_run_id # proc[p].promptRunId)
  /\ runLog' = Answered(runLog, proc[p])
  /\ UNCHANGED <<backend, providers, brands, brandSeq, mentionSeq, started,
                 lastCall, prevCall>>

\* mutant: the storage error is rethrown and answered 500
StorageFailPropagates(p) ==
  /\ \/ proc[p].pc \in {"createRun", "brandInsert", "mentionUpsert", "brandRefetch"}
     \/ proc[p].pc = "brandSelect" /\ backend = "postgres"
  /\ proc' = [proc EXCEPT ![p] =
       Fail([@ EXCEPT !.storageOps = @ + 1, !.storageError = TRUE], 500,
            "connection terminated")]
  /\ runLog' = Answered(runLog, proc[p])
  /\ UNCHANGED <<backend, providers, store, started, lastCall, prevCall>>

\* a query of the recorder fails (connection, timeout): the model method
\* rethrows, checkVisibility catches dbError and still answers
StorageFail(p) ==
  /\ \/ proc[p].pc \in {"createRun", "brandInsert", "mentionUpsert", "brandRefetch"}
     \/ proc[p].pc = "brandSelect" /\ backend = "postgres"
  /\ proc' = [proc EXCEPT ![p] =
       Succeed([@ EXCEPT !.storageOps = @ + 1, !.storageError = TRUE])]
  /\ runLog' = Answered(runLog, proc[p])
  /\ UNCHANGED <<backend, providers, store, started, lastCall, prevCall>>

\* SupabaseBrandModel.getOrCreate: a failed lookup leaves existing empty and
\* the method goes on to the insert
SupabaseSelectFail(p) ==
  /\ proc[p].pc = "brandSelect"
  /\ backend = "supabase"
  /\ proc' = [proc EXCEPT ![p] =
       [@ EXCEPT !.pc = "brandInsert", !.storageOps = @ + 1]]
  /\ UNCHANGED <<backend, providers, store, started, runLog, lastCall, prevCall>>


(***************************************************************************)
(* GET /api/prompts and getPromptsWithMentions                             *)
(***************************************************************************)
DigitSet == {"0", "1", "2", "3", "4", "5", "6", "7", "8", "9"}

\* the value of a run of decimal digits
RECURSIVE DigitsValue(_)
DigitsValue(s) ==
  IF s = "" THEN 0
  ELSE 10 * DigitsValue(SubSeq(s, 1, Len(s) - 1))
       + (IndexOfChar(DigitChars, CharAt(s, Len(s))) - 1)

\* parseInt(s, 10): <<n>>, or <<>> for NaN
ParseInt(s) ==
  LET t == TrimStart(s)
      signed == t # "" /\ Head(t) \in {"+", "-"}
      u == IF signed THEN Tail(t) ELSE t
      stop == FirstIndex(u, 1, DigitSet, FALSE)
      digits == IF stop = 0 THEN u ELSE SubSeq(u, 1, stop - 1)
  IN  IF digits = "" THEN <<>>
      ELSE IF signed /\ Head(t) = "-" THEN <<0 - DigitsValue(digits)>>
      ELSE <<DigitsValue(digits)>>

DefaultLimit == 50
MaxLimit == 100

\* the 400 answers of GET, "" when the parameters pass validation
GetValidationError(query) ==
  IF /\ Truthy(query.limit)
     /\ ~(/\ ParseInt(query.limit.v) # <<>>
          /\ ParseInt(query.limit.v)[1] > 0
          /\ ParseInt(query.limit.v)[1] <= MaxLimit)
    THEN "Limit must be a number between 1 and 100"
  ELSE IF /\ Truthy(query.offset)
          /\ ~(ParseInt(query.offset.v) # <<>> /\ ParseInt(query.offset.v)[1] >= 0)
    THEN "Offset must be a non-negative number"
  ELSE ""

LimitOf(query) ==
  IF Truthy(query.limit) THEN ParseInt(query.limit.v)[1] ELSE DefaultLimit

OffsetOf(query) == IF Truthy(query.offset) THEN ParseInt(query.offset.v)[1] ELSE 0

\* SELECT * FROM prompt_runs ORDER BY created_at DESC LIMIT $1 OFFSET $2
\* (rows are created in id order)
GetAllRuns(table, limit, offset) ==
  [k \in 1..Min(limit, IF Len(table) > offset THEN Len(table) - offset ELSE 0) |->
     table[Len(table) - offset - k + 1]]

\* rows ordered by mention_count DESC, rows of equal count in insertion order
RECURSIVE ByCountDesc(_)
ByCountDesc(rows) ==
  IF rows = <<>> THEN <<>>
  ELSE LET top == CHOOSE i \in 1..Len(rows) :
                    \A j \in 1..Len(rows) :
                      \/ rows[i].mention_count > rows[j].mention_count
                      \/ rows[i].mention_count = rows[j].mention_count /\ i <= j
       IN  <<rows[top]>>
           \o ByCountDesc(SubSeq(rows, 1, top - 1) \o SubSeq(rows, top + 1, Len(rows)))

\* MentionModel.getByPromptRunId
MentionsOfRun(table, runId) ==
  ByCountDesc(SelectSeq(table, LAMBDA m : m.prompt_run_id = runId))

\* BrandModel.getById, then brand?.name || 'Unknown'
BrandNameOf(table, brandId) ==
  LET hits == {i \in 1..Len(table) : table[i].id = brandId}
  IN  IF hits = {} THEN "Unknown"
      ELSE LET name == table[CHOOSE i \in hits : TRUE].name
           IN  IF name = "" THEN "Unknown" ELSE name

\* the brands entry of one PromptWithMentions
BrandMentionsOf(runId) ==
  LET rows == MentionsOfRun(mentions, runId)
  IN  [k \in 1..Len(rows) |->
         [brandName |-> BrandNameOf(brands, rows[k].brand_id),
          mentioned |-> rows[k].mentioned,
          mentionCount |-> rows[k].mention_count]]

\* brandMentions.some(bm => bm.brandName.toLowerCase() === brandFilter.toLowerCase())
HasBrand(entries, brandFilter) ==
  \E k \in 1..Len(entries) :
    ToLowerCase(entries[k].brandName) = ToLowerCase(brandFilter)

\* getPromptsWithMentions(limit, offset, brandFilter || undefined)
getPromptsWithMentions(limit, offset, brandFilter) ==
  LET page == GetAllRuns(runs, limit, offset)
      kept == SelectSeq(page, LAMBDA r :
                ~Truthy(brandFilter) \/ HasBrand(BrandMentionsOf(r.id), brandFilter.v))
  IN  [k \in 1..Len(kept) |->
         [id |-> kept[k].id, category |-> kept[k].category,
          prompt |-> kept[k].prompt, aiProvider |-> kept[k].ai_provider,
          brands |-> BrandMentionsOf(kept[k].id)]]

\* the queries one listing issues: getAll, then per run getByPromptRunId and
\* one getById per mention
ListingQueries(limit, offset) ==
  LET page == GetAllRuns(runs, limit, offset)
      PerRun(r) == 1 + Len(MentionsOfRun(mentions, r.id))
      RECURSIVE Sum(_)
      Sum(k) == IF k = 0 THEN 0 ELSE PerRun(page[k]) + Sum(k - 1)
  IN  1 + Sum(Len(page))

\* GET: validation, then the listing; failed is a query of the listing
\* throwing, answered 500
GetPrompts(p, query, failed) ==
  /\ proc[p].pc \in {"idle", "done"}
  /\ started < MaxRequests
  /\ started' = started + 1
  /\ LET rec == [IdleProc EXCEPT !.route = "GET /api/prompts", !.query = query]
     IN  proc' = [proc EXCEPT ![p] =
           IF GetValidationError(query) # ""
             THEN Fail(rec, 400, GetValidationError(query))
           ELSE IF failed
             THEN Fail([rec EXCEPT !.storageOps = 1], 500,
                       "connection terminated")
           ELSE [rec EXCEPT
                   !.pc = "done", !.status = 200,
                   !.storageOps = ListingQueries(LimitOf(query), OffsetOf(query)),
                   !.data = <<getPromptsWithMentions(LimitOf(query), OffsetOf(query),
                                                     query.brand)>>]]
  /\ UNCHANGED <<backend, providers, store, runLog, lastCall, prevCall>>


(***************************************************************************)
(* Concurrent analysis requests against one store                          *)
(***************************************************************************)
NoCall == [op |-> "none"]

InitStore ==
  /\ brands = <<>>
  /\ brandSeq = 0
  /\ runs = <<>>
  /\ mentions = <<>>
  /\ mentionSeq = 0
  /\ runLog = <<>>

\* the requests of the concurrent clients: brand names that differ in case
ConcBrandLists == {<<"Acme">>, <<"Acme", "acme">>, <<"acme", "Bolt">>}

ConcBodies ==
  {Body(Str("CRM"), Arr(b), Str("openai"), Undef, Undef) : b \in ConcBrandLists}

ConcTexts == {"Acme leads. Try https://acme.io now"}

Init ==
  /\ backend \in {"postgres", "supabase"}
  /\ providers = {"openai"}
  /\ InitStore
  /\ proc = [p \in Procs |-> IdleProc]
  /\ started = 0
  /\ lastCall = NoCall
  /\ prevCall = NoCall

Next ==
  \E p \in Procs :
    \/ \E body \in ConcBodies : Post(p, body)
    \/ \E text \in ConcTexts : ProviderRespond(p, text)
    \/ ProviderFail(p, "quota exceeded")
    \/ CreateRun(p)
    \/ BrandSelect(p)
    \/ BrandInsert(p)
    \/ BrandRefetch(p)
    \/ MentionUpsert(p)
    \/ StorageFail(p)
    \/ SupabaseSelectFail(p)

Spec == Init /\ [][Next]_vars


\* the same requests when every query of the recorder is answered
NextRace ==
  \E p \in Procs :
    \/ \E body \in ConcBodies : Post(p, body)
    \/ \E text \in ConcTexts : ProviderRespond(p, text)
    \/ ProviderFail(p, "quota exceeded")
    \/ CreateRun(p)
    \/ BrandSelect(p)
    \/ BrandInsert(p)
    \/ BrandRefetch(p)
    \/ MentionUpsert(p)

SpecRace == Init /\ [][NextRace]_vars

(***************************************************************************)
(* One client at a time against the two handlers                           *)
(***************************************************************************)
ScenarioText ==
  "Salesforce is a leading CRM. HubSpot also offers CRM tools. Visit https://salesforce.com for details."

ScenarioBody ==
  Body(Str("CRM software"), Arr(<<"Salesforce", "HubSpot">>), Str("openai"), Undef, Undef)

ApiBodies ==
  { ScenarioBody,
    Body(Str("CRM"), Arr(<<"Acme">>), Str("gemini"), Undef, Undef),
    Body(Str("CRM"), Arr(<<"Acme", "acme">>), Str("groq"), Undef, Undef),
    Body(Str("CRM"), Arr(<<"ACME">>), Undef, Bool(FALSE), Undef),
    Body(Str("CRM"), Arr(<<"Bolt">>), Str("openai"), Bool(TRUE), Str("Acme")),
    Body(Str("CRM"), Arr(<<"Acme", " ">>), Str("openai"), Undef, Undef),
    Body(Str("CRM"), Arr(<<"">>), Str("openai"), Undef, Undef),
    Body(Undef, Arr(<<"Acme">>), Str("openai"), Undef, Undef),
    Body(Str(""), Arr(<<"Acme">>), Str("openai"), Undef, Undef),
    Body(Str("CRM"), Arr(<<>>), Str("openai"), Undef, Undef),
    Body(Str("CRM"), Undef, Str("openai"), Undef, Undef),
    Body(Str("CRM"), Arr(<<"Acme">>), Str("openai"), Bool(TRUE), Undef),
    Body(Str("CRM"), Arr(<<"Acme">>), Str("gemini"), Bool(TRUE), Str("")) }

ApiTexts == {ScenarioText, "Acme leads. Try https://acme.io now"}

ApiQueries ==
  [limit : {Undef, Str("0"), Str("2"), Str("101"), Str("abc"), Str("-3")},
   offset : {Undef, Str("1"), Str("-1")},
   brand : {Undef, Str("ACME")}]

ApiProcs == {1}

InitApi ==
  /\ backend \in {"postgres", "supabase"}
  /\ providers \in {{"openai"}, {"groq"}}
  /\ InitStore
  /\ proc = [p \in Procs |-> IdleProc]
  /\ started = 0
  /\ lastCall = NoCall
  /\ prevCall = NoCall

NextApi ==
  \E p \in ApiProcs :
    \/ \E body \in ApiBodies : Post(p, body)
    \/ \E text \in ApiTexts : ProviderRespond(p, text)
    \/ ProviderFail(p, "quota exceeded")
    \/ CreateRun(p)
    \/ BrandSelect(p)
    \/ BrandInsert(p)
    \/ BrandRefetch(p)
    \/ MentionUpsert(p)
    \/ StorageFail(p)
    \/ SupabaseSelectFail(p)
    \/ \E query \in ApiQueries, failed \in BOOLEAN : GetPrompts(p, query, failed)

SpecApi == InitApi /\ [][NextApi]_vars

(***************************************************************************)
(* The analysis of one response, the database being unreachable            *)
(***************************************************************************)
AnalysisBrandLists ==
  { <<"Mojo">>, <<"Yahoo!">>, <<"Acme.io">>, <<"Acme(">>,
    <<"Mojo", "Zendesk">>, <<"HubSpot CRM", "Zendesk">>, <<"Mojo", "Acme(">> }

AnalysisBodies ==
  {Body(Str("CRM"), Arr(b), Str("openai"), Undef, Undef) : b \in AnalysisBrandLists}

AnalysisTexts ==
  { "Mojolicious is great, unlike Mojo",
    "Try Yahoo! today",
    "Mojo_lib wraps it",
    "Acme-io is not Acme.io",
    "Acme-io wins",
    "Mojolicious rocks",
    "HubSpot CRM wins. See https://zoho.com https://odoo.com https://hubspot.com",
    "Mojo rocks. See [m](https://mojo.dev) and https://odoo.com",
    "Mojo rocks. See https://odoo.com" }

InitAnalysis ==
  /\ backend \in {"postgres", "supabase"}
  /\ providers = {"openai"}
  /\ InitStore
  /\ proc = [p \in Procs |-> IdleProc]
  /\ started = 0
  /\ lastCall = NoCall
  /\ prevCall = NoCall

NextAnalysis ==
  \E p \in ApiProcs :
    \/ \E body \in AnalysisBodies : Post(p, body)
    \/ \E text \in AnalysisTexts : ProviderRespond(p, text)
    \/ ProviderFail(p, "quota exceeded")
    \/ StorageFail(p)

SpecAnalysis == InitAnalysis /\ [][NextAnalysis]_vars

(***************************************************************************)
(* Direct calls of the run recorder, one at a time                         *)
(***************************************************************************)
MaxCalls == 4
MaxRunId == 2
MaxBrandId == 2

StoreNames == {"Acme", "acme", "ACME", "Bolt"}

MentionValues ==
  { [mentioned |-> FALSE, count |-> 0, context |-> <<>>, urls |-> <<>>],
    [mentioned |-> TRUE, count |-> 1, context |-> <<"Acme leads">>,
     urls |-> <<"https://acme.io">>],
    [mentioned |-> TRUE, count |-> 1, context |-> <<"Acme leads">>, urls |-> <<>>],
    [mentioned |-> TRUE, count |-> 2, context |-> <<"Acme leads", "Try Acme">>,
     urls |-> <<"https://acme.io", "https://bolt.dev">>] }

\* BrandModel.getOrCreate(name) run to completion on a quiet store
CallGetOrCreate(name) ==
  /\ started < MaxCalls
  /\ started' = started + 1
  /\ prevCall' = lastCall
  /\ LET hits == FindBrand(brands, name)
     IN  IF hits # {}
           THEN /\ \E i \in hits :
                     lastCall' = [op |-> "getOrCreate", name |-> name,
                                  id |-> brands[i].id, rows |-> Len(brands)]
                /\ UNCHANGED <<brands, brandSeq>>
           ELSE /\ ~NameTaken(brands, name)
                /\ brands' = InsertBrand(brands, brandSeq + 1, name)
                /\ brandSeq' = brandSeq + 1
                /\ lastCall' = [op |-> "getOrCreate", name |-> name,
                                id |-> brandSeq + 1, rows |-> Len(brands) + 1]
  /\ UNCHANGED <<backend, providers, runs, mentions, mentionSeq, proc, runLog>>

\* PromptRunModel.create(category, prompt, rawResponse, aiProvider)
CallCreateRun ==
  /\ started < MaxCalls
  /\ Len(runs) < MaxRunId
  /\ started' = started + 1
  /\ prevCall' = lastCall
  /\ runs' = InsertRun(runs, "CRM", "Visibility check for CRM - Brands: Acme",
                       "Acme leads", "openai")
  /\ runLog' = Append(runLog, [brands |-> <<>>, answered |-> TRUE])
  /\ lastCall' = [op |-> "create", id |-> Len(runs) + 1]
  /\ UNCHANGED <<backend, providers, brands, brandSeq, mentions, mentionSeq, proc>>

\* MentionModel.createOrUpdate(promptRunId, brandId, ...): the foreign keys of
\* mentions make the call throw for a run or a brand that is not stored
CallCreateOrUpdate(runId, brandId, v) ==
  /\ started < MaxCalls
  /\ started' = started + 1
  /\ prevCall' = lastCall
  /\ mentionSeq' = mentionSeq + 1
  /\ LET stored == /\ runId \in 1..Len(runs)
                   /\ \E i \in 1..Len(brands) : brands[i].id = brandId
     IN  /\ mentions' = IF stored
                          THEN UpsertMention(mentions, mentionSeq + 1, runId, brandId,
                                             v.mentioned, v.count, v.context, v.urls)
                          ELSE mentions
         /\ lastCall' = [op |-> "createOrUpdate", runId |-> runId,
                         brandId |-> brandId, values |-> v, stored |-> stored]
  /\ UNCHANGED <<backend, providers, brands, brandSeq, runs, proc, runLog>>

NextStore ==
  \/ \E name \in StoreNames : CallGetOrCreate(name)
  \/ CallCreateRun
  \/ \E runId \in 1..MaxRunId, brandId \in 1..MaxBrandId, v \in MentionValues :
       CallCreateOrUpdate(runId, brandId, v)

SpecStore == Init /\ [][NextStore]_vars


(***************************************************************************)
(* Direct calls of the citation extractor and of the metrics of the page   *)
(***************************************************************************)
HubSpotExample ==
  "See [HubSpot](https://hubspot.com) and also https://hubspot.com/pricing."

CitationTexts ==
  { HubSpotExample,
    "[a](https://x.io) and [b](https://x.io)",
    "[a](https://y.io) then [b](https://x.io), [c](docs/page)",
    "Visit https://x.io, then https://x.io/b; or https://x.io!",
    "(see http://y.co) and [a](https://x.io.)",
    "No links here.",
    "" }

\* <<brands with count > 0, brands of the request>>
ScoreInputs ==
  { <<0, 0>>, <<0, 1>>, <<1, 1>>, <<1, 2>>, <<2, 2>>, <<1, 3>>, <<2, 3>>,
    <<3, 3>>, <<5, 8>>, <<2000, 2001>>, <<2001, 2001>> }

\* the counts of the mentions of one result
ShareInputs ==
  { <<0>>, <<0, 0>>, <<1>>, <<1, 1>>, <<1, 2>>, <<1, 1, 1>>, <<2, 0, 1>>,
    <<1, 15>>, <<3, 3, 1>> }

\* extractCitations(text)
CallExtractCitations(text) ==
  /\ started < MaxCalls
  /\ started' = started + 1
  /\ prevCall' = lastCall
  /\ lastCall' = [op |-> "extractCitations", text |-> text,
                  citations |-> extractCitations(text)]
  /\ UNCHANGED <<backend, providers, store, proc, runLog>>

\* calculateVisibilityScore(result.mentions, result.brands.length) for a
\* result whose first mentionedBrands mentions have count 1, the others 0
CallCalculateVisibilityScore(mentionedBrands, totalBrands) ==
  /\ started < MaxCalls
  /\ started' = started + 1
  /\ prevCall' = lastCall
  /\ lastCall' =
       [op |-> "calculateVisibilityScore",
        mentionedBrands |-> mentionedBrands, totalBrands |-> totalBrands,
        score |-> calculateVisibilityScore(
                    [i \in 1..totalBrands |->
                       [count |-> IF i <= mentionedBrands THEN 1 ELSE 0]],
                    totalBrands)]
  /\ UNCHANGED <<backend, providers, store, proc, runLog>>

\* calculateCitationShare(mention.count, result.totalMentions) for every
\* mention of one result
CallCalculateCitationShare(counts) ==
  /\ started < MaxCalls
  /\ started' = started + 1
  /\ prevCall' = lastCall
  /\ LET totalMentions == SumCounts([i \in 1..Len(counts) |-> [count |-> counts[i]]])
     IN  lastCall' =
           [op |-> "calculateCitationShare", counts |-> counts,
            totalMentions |-> totalMentions,
            shares |-> [i \in 1..Len(counts) |->
                          calculateCitationShare(counts[i], totalMentions)]]
  /\ UNCHANGED <<backend, providers, store, proc, runLog>>

NextFunctions ==
  \/ \E text \in CitationTexts : CallExtractCitations(text)
  \/ \E in \in ScoreInputs : CallCalculateVisibilityScore(in[1], in[2])
  \/ \E counts \in ShareInputs : CallCalculateCitationShare(counts)

SpecFunctions == Init /\ [][NextFunctions]_vars


(***************************************************************************)
(* The history listing over a store that already holds two analyses        *)
(***************************************************************************)
HistoryText == "Acme leads. Try https://acme.io now"

\* the two analyses recorded before: acme and Bolt first, Acme alone after
EarlierBodies ==
  << Body(Str("CRM"), Arr(<<"acme", "Bolt">>), Str("openai"), Undef, Undef),
     Body(Str("CRM"), Arr(<<"Acme">>), Str("openai"), Undef, Undef) >>

\* the mention row checkVisibility writes for brand name of one analysis
RecordMention(table, id, runId, brandId, found, name) ==
  LET hit == FindMention(found, name)
  IN  UpsertMention(table, id, runId, brandId,
                    IF hit = <<>> THEN FALSE ELSE hit[1].count > 0,
                    IF hit = <<>> THEN 0 ELSE hit[1].count,
                    IF hit = <<>> THEN <<>> ELSE hit[1].context,
                    IF hit = <<>> THEN <<>> ELSE hit[1].citationUrls)

\* the store after the two earlier analyses, each recorded to its end
EarlierStore ==
  LET first == AnalyzeMentions(HistoryText, EarlierBodies[1].brands.v)
      second == AnalyzeMentions(HistoryText, EarlierBodies[2].brands.v)
  IN  /\ brands = InsertBrand(InsertBrand(<<>>, 1, "acme"), 2, "Bolt")
      /\ brandSeq = 2
      /\ runs = InsertRun(InsertRun(<<>>, "CRM", StoredPrompt(EarlierBodies[1]),
                                     HistoryText, "openai"),
                           "CRM", StoredPrompt(EarlierBodies[2]), HistoryText, "openai")
      /\ mentions =
           RecordMention(
             RecordMention(
               RecordMention(<<>>, 1, 1, 1, first, "acme"),
               2, 1, 2, first, "Bolt"),
             3, 2, 1, second, "Acme")
      /\ mentionSeq = 3
      /\ runLog = << [brands |-> EarlierBodies[1].brands.v, answered |-> TRUE],
                     [brands |-> EarlierBodies[2].brands.v, answered |-> TRUE] >>

HistoryBodies ==
  { Body(Str("CRM"), Arr(<<"Bolt", "Dash">>), Str("openai"), Undef, Undef),
    Body(Str("CRM"), Arr(<<"">>), Str("openai"), Undef, Undef) }

HistoryQueries ==
  [limit : {Undef, Str("1")},
   offset : {Undef, Str("1")},
   brand : {Undef, Str("BOLT"), Str("unknown")}]

InitHistory ==
  /\ backend \in {"postgres", "supabase"}
  /\ providers = {"openai"}
  /\ (InitStore \/ EarlierStore)
  /\ proc = [p \in Procs |-> IdleProc]
  /\ started = 0
  /\ lastCall = NoCall
  /\ prevCall = NoCall

NextHistory ==
  \E p \in ApiProcs :
    \/ \E body \in HistoryBodies : Post(p, body)
    \/ ProviderRespond(p, HistoryText)
    \/ CreateRun(p)
    \/ BrandSelect(p)
    \/ BrandInsert(p)
    \/ MentionUpsert(p)
    \/ \E query \in HistoryQueries, failed \in BOOLEAN : GetPrompts(p, query, failed)

SpecHistory == InitHistory /\ [][NextHistory]_vars

(***************************************************************************)
(* Properties                                                              *)
(***************************************************************************)
PostRoute == "POST /api/check-visibility"
GetRoute == "GET /api/prompts"

\* C1: the brands table never holds two rows whose names are equal ignoring
\* letter case, whatever the interleaving of the getOrCreate calls (SpecRace).
C1_OneBrandRowPerName ==
  \A i, j \in 1..Len(brands) :
    ToLowerCase(brands[i].name) = ToLowerCase(brands[j].name) => i = j

\* C2: a getOrCreate call whose insert meets a uniqueness conflict goes on to
\* fetch the row again instead of raising to checkVisibility (SpecRace).
C2_ConflictLoserRefetches ==
  [][\A p \in Procs :
       (/\ proc[p].pc = "brandInsert"
        /\ NameTaken(brands, BrandName(proc[p]))
        /\ brandSeq' = brandSeq + 1
        /\ proc'[p] # proc[p])
       => proc'[p].pc = "brandRefetch"]_vars

\* C3: there is at most one mentions row per (prompt_run_id, brand_id), and
\* after a createOrUpdate call the row of its pair carries the values of that
\* call (SpecStore).
C3_UpsertLastWriteWins ==
  /\ \A i, j \in 1..Len(mentions) :
       (/\ mentions[i].prompt_run_id = mentions[j].prompt_run_id
        /\ mentions[i].brand_id = mentions[j].brand_id) => i = j
  /\ (lastCall.op = "createOrUpdate" /\ lastCall.stored) =>
       \E i \in 1..Len(mentions) :
         /\ mentions[i].prompt_run_id = lastCall.runId
         /\ mentions[i].brand_id = lastCall.brandId
         /\ mentions[i].mentioned = lastCall.values.mentioned
         /\ mentions[i].mention_count = lastCall.values.count
         /\ mentions[i].context = lastCall.values.context
         /\ mentions[i].citation_urls = lastCall.values.urls

\* C3 witness: two calls in a row for the same pair with different values
C3_SecondCallSamePair ==
  /\ lastCall.op = "createOrUpdate" /\ prevCall.op = "createOrUpdate"
  /\ lastCall.stored /\ prevCall.stored
  /\ lastCall.runId = prevCall.runId /\ lastCall.brandId = prevCall.brandId
  /\ lastCall.values.count # prevCall.values.count
  /\ lastCall.values.context # prevCall.values.context
  /\ lastCall.values.urls # prevCall.values.urls
  /\ lastCall.values.mentioned # prevCall.values.mentioned

\* C4: a request during which a storage operation failed is still answered
\* 200 with the category, brands, mentions and totalMentions computed from
\* the provider response; the storage error is not in the answer (Spec).
C4_StorageFailureStillAnswers ==
  \A p \in Procs :
    proc[p].storageError =>
      /\ proc[p].pc = "done" /\ proc[p].status = 200 /\ proc[p].error = ""
      /\ Len(proc[p].data) = 1
      /\ proc[p].data[1].category = proc[p].body.category.v
      /\ proc[p].data[1].brands = proc[p].body.brands.v
      /\ proc[p].data[1].mentions =
           AnalyzeMentions(proc[p].text, proc[p].body.brands.v)
      /\ proc[p].data[1].totalMentions =
           SumCounts(AnalyzeMentions(proc[p].text, proc[p].body.brands.v))

\* C4 witness: a mention upsert failed after the run was stored, and the
\* answer reports mentions
C4_FailedAfterRunStored ==
  \E p \in Procs :
    /\ proc[p].storageError /\ proc[p].promptRunId > 0 /\ proc[p].brandId > 0
    /\ proc[p].status = 200 /\ proc[p].data[1].totalMentions > 0

\* C5: for every stored run whose request has been answered, each brand name
\* of the request has exactly one brands row, and that row has exactly one
\* mentions row for the run (SpecRace).
C5_EveryBrandRecorded ==
  \A r \in 1..Len(runs) :
    runLog[r].answered =>
      \A k \in 1..Len(runLog[r].brands) :
        /\ Cardinality(PgFindBrand(brands, runLog[r].brands[k])) = 1
        /\ \A i \in PgFindBrand(brands, runLog[r].brands[k]) :
             Cardinality(MentionRows(mentions, r, brands[i].id)) = 1

\* C6: a valid request naming a provider that is not configured makes no
\* provider call and is answered with the provider-unavailable error (SpecApi).
C6_NoProviderFallback ==
  \A p \in Procs :
    (/\ proc[p].route = PostRoute
     /\ PostValidationError(proc[p].body) = ""
     /\ proc[p].body.provider.t = "string"
     /\ proc[p].body.provider.v \notin providers)
    => /\ proc[p].providerCalls = 0
       /\ proc[p].pc = "done" /\ proc[p].status = 500
       /\ proc[p].error = "Provider " \o proc[p].body.provider.v
            \o " is not configured or available. Please check your API keys."

\* the invalid requests C7 names
InvalidPost(body) ==
  \/ body.category \in {Undef, Str("")}
  \/ body.brands \in {Undef, Arr(<<>>)}
  \/ body.isCompetitorMode = Bool(TRUE) /\ body.mainBrand \in {Undef, Str("")}

InvalidGet(query) ==
  \/ /\ query.limit.t = "string"
     /\ ParseInt(query.limit.v) # <<>>
     /\ ParseInt(query.limit.v)[1] \notin 1..100
  \/ /\ query.offset.t = "string"
     /\ ParseInt(query.offset.v) # <<>>
     /\ ParseInt(query.offset.v)[1] < 0

\* C7: an invalid request is answered 400 at once, and has issued no provider
\* query and no storage query (SpecApi).
C7_InvalidRequestRejected ==
  \A p \in Procs :
    (\/ proc[p].route = PostRoute /\ InvalidPost(proc[p].body)
     \/ proc[p].route = GetRoute /\ InvalidGet(proc[p].query))
    => /\ proc[p].pc = "done" /\ proc[p].status = 400
       /\ proc[p].providerCalls = 0 /\ proc[p].storageOps = 0
       /\ proc[p].data = <<>>

\* C7 witness: competitor mode without a main brand was rejected after a
\* listing with a negative offset had been rejected
C7_RejectedCompetitorRequest ==
  \E p \in Procs :
    /\ proc[p].route = PostRoute
    /\ proc[p].body.isCompetitorMode = Bool(TRUE)
    /\ proc[p].body.mainBrand = Undef
    /\ proc[p].status = 400
    /\ started = 2

\* C8: the mention analyzer and the brands table never see a brand name that
\* is empty or whitespace only (SpecApi).
C8_NoBlankBrandName ==
  /\ \A p \in Procs :
       \A k \in 1..Len(proc[p].mentions) : Trim(proc[p].mentions[k].brand) # ""
  /\ \A i \in 1..Len(brands) : Trim(brands[i].name) # ""

\* C9: of two getOrCreate calls in a row whose names are equal ignoring letter
\* case, the second returns the id the first returned and leaves the number
\* of brands rows as it was (SpecStore).
C9_SameBrandIgnoringCase ==
  (/\ lastCall.op = "getOrCreate" /\ prevCall.op = "getOrCreate"
   /\ ToLowerCase(lastCall.name) = ToLowerCase(prevCall.name))
  => lastCall.id = prevCall.id /\ lastCall.rows = prevCall.rows

\* C9 witness: the second name differs from the first in letter case only
C9_SecondCallOtherCase ==
  /\ lastCall.op = "getOrCreate" /\ prevCall.op = "getOrCreate"
  /\ lastCall.name # prevCall.name
  /\ ToLowerCase(lastCall.name) = ToLowerCase(prevCall.name)

\* the request and response of the end-to-end scenario, answered
ScenarioAnswered(p) ==
  /\ proc[p].pc = "done" /\ proc[p].status = 200
  /\ proc[p].body = ScenarioBody
  /\ proc[p].text = ScenarioText

\* C10 as amended: the scenario yields Salesforce with count 2 (the name in
\* the URL counts) and two context sentences, HubSpot with the first global
\* citation by the fallback, totalMentions 3 and a visibility score of 100.0
\* (SpecApi).
C10_ScenarioResult ==
  \A p \in Procs :
    ScenarioAnswered(p) =>
      /\ proc[p].data[1].mentions =
           << [brand |-> "Salesforce", count |-> 2,
               context |-> <<"Salesforce is a leading CRM", "Visit https://salesforce">>,
               citationUrls |-> <<"https://salesforce.com">>],
              [brand |-> "HubSpot", count |-> 1,
               context |-> <<"HubSpot also offers CRM tools">>,
               citationUrls |-> <<"https://salesforce.com">>] >>
      /\ proc[p].data[1].totalMentions = 3
      /\ calculateVisibilityScore(proc[p].data[1].mentions,
                                  Len(proc[p].data[1].brands)) = 1000

\* C10 witness: the scenario was answered and its run stored
C10_ScenarioStored ==
  \E p \in Procs : ScenarioAnswered(p) /\ proc[p].promptRunId > 0 /\ Len(mentions) >= 2

\* C10 as stated: Salesforce with count 1 and one context sentence, HubSpot
\* without citations, totalMentions 2, visibility score 100.0 (SpecApi).
C10_ScenarioAsStated ==
  \A p \in Procs :
    ScenarioAnswered(p) =>
      /\ proc[p].data[1].mentions =
           << [brand |-> "Salesforce", count |-> 1,
               context |-> <<"Salesforce is a leading CRM">>,
               citationUrls |-> <<"https://salesforce.com">>],
              [brand |-> "HubSpot", count |-> 1,
               context |-> <<"HubSpot also offers CRM tools">>,
               citationUrls |-> <<>>] >>
      /\ proc[p].data[1].totalMentions = 2
      /\ calculateVisibilityScore(proc[p].data[1].mentions,
                                  Len(proc[p].data[1].brands)) = 1000

\* a request whose response has been analysed
Analysed(p) ==
  /\ proc[p].route = PostRoute
  /\ proc[p].pc \in {"createRun", "done"}
  /\ proc[p].status \in {0, 200}

IsAlnum(c) == c # "" /\ IsWordChar(c) /\ c # "_"

\* the brand name holds a character with a special meaning in a pattern
HasPatternChar(brand) == \E i \in 1..Len(brand) : CharAt(brand, i) \in {".", "("}

\* the occurrences of brand in text, letter case ignored, that no
\* alphanumeric character flanks
LiteralOccurrences(text, brand) ==
  {k \in 0..(Len(text) - Len(brand)) :
     /\ ToLowerCase(Slice(text, k + 1, k + Len(brand))) = ToLowerCase(brand)
     /\ ~IsAlnum(CharAt(text, k))
     /\ ~IsAlnum(CharAt(text, k + Len(brand) + 1))}

\* C11: for a brand name without pattern characters, the count is the number
\* of occurrences of the name, letter case ignored, that are not flanked by an
\* alphanumeric character (SpecAnalysis).
C11_CountIsUnflankedOccurrences ==
  \A p \in Procs :
    Analysed(p) =>
      \A k \in 1..Len(proc[p].mentions) :
        ~HasPatternChar(proc[p].mentions[k].brand) =>
          proc[p].mentions[k].count =
            Cardinality(LiteralOccurrences(proc[p].text, proc[p].mentions[k].brand))

\* C12: a request with a brand name holding pattern characters is analysed
\* without failing, and the count of that brand is the number of its literal
\* occurrences (SpecAnalysis).
C12_PatternCharsAreLiteral ==
  \A p \in Procs :
    (/\ proc[p].route = PostRoute
     /\ proc[p].text # ""
     /\ \E k \in 1..Len(proc[p].body.brands.v) :
          HasPatternChar(proc[p].body.brands.v[k]))
    => /\ Analysed(p)
       /\ \A k \in 1..Len(proc[p].mentions) :
            HasPatternChar(proc[p].mentions[k].brand) =>
              proc[p].mentions[k].count =
                Cardinality(LiteralOccurrences(proc[p].text, proc[p].mentions[k].brand))

\* C13: the list the citation extractor returns holds no URL twice
\* (SpecFunctions).
C13_NoCitationTwice ==
  lastCall.op = "extractCitations" =>
    \A i, j \in 1..Len(lastCall.citations) :
      lastCall.citations[i] = lastCall.citations[j] => i = j

HasTrailingPunct(s) == s # "" /\ CharAt(s, Len(s)) \in {".", ",", ";", "!", "?"}

IsHttpUrl(s) == Slice(s, 1, 8) = "https://" \/ Slice(s, 1, 7) = "http://"

\* the http(s) tokens of text that begin a word or follow "(", punctuation
\* stripped
BareTokens(text) ==
  {StripTrailingPunct(SubSeq(text, i, PlainUrlEndAt(text, i))) :
     i \in {k \in 1..Len(text) :
              /\ PlainUrlEndAt(text, k) > 0
              /\ (k = 1 \/ IsSpace(CharAt(text, k - 1)) \/ CharAt(text, k - 1) = "(")}}

\* C14: the list begins with the URLs of the markdown links in text order;
\* what follows are http(s) URLs of the text without trailing punctuation,
\* none of them already in the list, and every bare URL of the text is in
\* the list; a second run on the same text gives the same list; the HubSpot
\* example gives the two URLs stated (SpecFunctions).
C14_MarkdownFirstThenBare ==
  lastCall.op = "extractCitations" =>
    LET out == lastCall.citations
        md == MarkdownLinks(lastCall.text, 1)
    IN  /\ Len(md) <= Len(out)
        /\ SubSeq(out, 1, Len(md)) = md
        /\ \A i \in (Len(md) + 1)..Len(out) :
             /\ IsHttpUrl(out[i])
             /\ ~HasTrailingPunct(out[i])
             /\ Includes(lastCall.text, out[i])
             /\ \A j \in 1..(i - 1) : out[j] # out[i]
        /\ \A url \in BareTokens(lastCall.text) : ListIncludes(out, url)
        /\ lastCall.text = HubSpotExample =>
             out = <<"https://hubspot.com", "https://hubspot.com/pricing">>
        /\ (prevCall.op = "extractCitations" /\ prevCall.text = lastCall.text) =>
             prevCall.citations = out

\* C14 witness: the HubSpot example was extracted twice in a row
C14_ExampleExtractedTwice ==
  /\ lastCall.op = "extractCitations" /\ prevCall.op = "extractCitations"
  /\ lastCall.text = HubSpotExample /\ prevCall.text = HubSpotExample
  /\ Len(lastCall.citations) = 2

\* C15: in an analysed response, a brand with count 0 has no citation URLs
\* (SpecAnalysis).
C15_NoCitationsWithoutMention ==
  \A p \in Procs :
    Analysed(p) =>
      \A k \in 1..Len(proc[p].mentions) :
        proc[p].mentions[k].count = 0 => proc[p].mentions[k].citationUrls = <<>>

\* C15 witness: a brand with count 0 in a response that cites URLs and
\* mentions another brand
C15_UnmentionedBesideCited ==
  \E p \in Procs :
    /\ Analysed(p)
    /\ extractCitations(proc[p].text) # <<>>
    /\ \E k, l \in 1..Len(proc[p].mentions) :
         /\ proc[p].mentions[k].count = 0
         /\ proc[p].mentions[l].citationUrls # <<>>

\* the registrable name of a URL: its host without scheme and "www.", up to
\* the first dot
RegistrableName(url) ==
  LET lower == ToLowerCase(url)
      host == IF Slice(lower, 1, 8) = "https://" THEN SubSeq(lower, 9, Len(lower))
              ELSE IF Slice(lower, 1, 7) = "http://" THEN SubSeq(lower, 8, Len(lower))
              ELSE lower
      bare == IF Slice(host, 1, 4) = "www." THEN SubSeq(host, 5, Len(host)) ELSE host
  IN  SplitDotFirst(bare)

\* the citations the claim attributes to a brand
ClaimedCitations(brand, citations) ==
  SelectSeq(citations, LAMBDA url :
    \/ Includes(ToLowerCase(url), ToLowerCase(brand))
    \/ Includes(ToLowerCase(brand), RegistrableName(url)))

\* C16: a brand with count > 0 gets the citations that contain its name or
\* whose registrable name its name contains; when there are none, the first
\* two citations (SpecAnalysis).
C16_AttributionThenFallback ==
  \A p \in Procs :
    Analysed(p) =>
      LET citations == extractCitations(proc[p].text)
      IN  \A k \in 1..Len(proc[p].mentions) :
            proc[p].mentions[k].count > 0 =>
              proc[p].mentions[k].citationUrls =
                IF ClaimedCitations(proc[p].mentions[k].brand, citations) # <<>>
                  THEN ClaimedCitations(proc[p].mentions[k].brand, citations)
                  ELSE SubSeq(citations, 1, Min(2, Len(citations)))

\* C17 as amended: the score, rounded to one decimal as the page shows it, is
\* the tenth nearest to the share of mentioned brands, lies in [0, 100], is 0
\* when no brands were tracked, is 100.0 when every brand has count > 0, and
\* for fewer than 2000 brands only then (SpecFunctions).
C17_ScoreRoundedShare ==
  lastCall.op = "calculateVisibilityScore" =>
    /\ lastCall.score \in 0..1000
    /\ lastCall.totalBrands = 0 => lastCall.score = 0
    /\ lastCall.totalBrands > 0 =>
         /\ 2 * (lastCall.score * lastCall.totalBrands
                 - 1000 * lastCall.mentionedBrands) <= lastCall.totalBrands
         /\ 2 * (1000 * lastCall.mentionedBrands
                 - lastCall.score * lastCall.totalBrands) <= lastCall.totalBrands
         /\ lastCall.mentionedBrands = lastCall.totalBrands => lastCall.score = 1000
         /\ (lastCall.score = 1000 /\ lastCall.totalBrands < 2000)
              => lastCall.mentionedBrands = lastCall.totalBrands

\* C17 witness: a list with some brands mentioned and some not, whose score
\* is rounded
C17_PartlyMentioned ==
  /\ lastCall.op = "calculateVisibilityScore"
  /\ lastCall.mentionedBrands \in 1..(lastCall.totalBrands - 1)
  /\ lastCall.score * lastCall.totalBrands # 1000 * lastCall.mentionedBrands

\* C17 as stated: for a non-empty brand list the score is in [0, 100] and is
\* 100 exactly when every brand has count > 0 (SpecFunctions).
C17_FullScoreIffAllMentioned ==
  (lastCall.op = "calculateVisibilityScore" /\ lastCall.totalBrands > 0) =>
    /\ lastCall.score \in 0..1000
    /\ lastCall.score = 1000 <=> lastCall.mentionedBrands = lastCall.totalBrands

\* the sum of a sequence of integers
RECURSIVE SumSeq(_)
SumSeq(seq) == IF seq = <<>> THEN 0 ELSE Head(seq) + SumSeq(Tail(seq))

\* C18: the share of a brand is the tenth nearest to count / totalMentions
\* * 100, and 0 when totalMentions is 0; the shares of one result sum to 0
\* when totalMentions is 0 and to 100 within the rounding of each share
\* (0.05 per brand) otherwise (SpecFunctions).
C18_SharesSumToHundred ==
  lastCall.op = "calculateCitationShare" =>
    LET total == lastCall.totalMentions
        n == Len(lastCall.counts)
    IN  /\ total = SumSeq(lastCall.counts)
        /\ total = 0 =>
             /\ \A i \in 1..n : lastCall.shares[i] = 0
             /\ SumSeq(lastCall.shares) = 0
        /\ total > 0 =>
             /\ \A i \in 1..n :
                  /\ 2 * (lastCall.shares[i] * total - 1000 * lastCall.counts[i]) <= total
                  /\ 2 * (1000 * lastCall.counts[i] - lastCall.shares[i] * total) <= total
             /\ 2 * (SumSeq(lastCall.shares) - 1000) <= n
             /\ 2 * (1000 - SumSeq(lastCall.shares)) <= n

\* C18 witness: three brands with equal counts, whose shares sum to 99.9
C18_RoundedSharesOffHundred ==
  /\ lastCall.op = "calculateCitationShare"
  /\ lastCall.totalMentions > 0
  /\ SumSeq(lastCall.shares) # 1000

\* C19: every row of the mentions table has mentioned set exactly when its
\* mention_count is above 0 (SpecApi).
C19_MentionedIffCounted ==
  \A i \in 1..Len(mentions) :
    mentions[i].mentioned = (mentions[i].mention_count > 0)

\* C19 witness: the table holds a row of a mentioned brand and a row of a
\* brand that was not mentioned
C19_BothKindsOfRow ==
  \E i, j \in 1..Len(mentions) :
    /\ mentions[i].mention_count > 0 /\ mentions[i].mentioned
    /\ mentions[j].mention_count = 0 /\ ~mentions[j].mentioned

\* a request whose provider query failed: it ended without a response text
ProviderFailed(p) ==
  /\ proc[p].route = PostRoute
  /\ proc[p].pc = "done"
  /\ proc[p].providerCalls > 0
  /\ proc[p].text = ""

\* C20: a request queries its provider at most once, and a request whose
\* query failed is answered with an error that names the provider queried
\* and carries the message of the failure (SpecApi).
C20_NoProviderRetry ==
  \A p \in Procs :
    /\ proc[p].providerCalls <= 1
    /\ ProviderFailed(p) =>
         /\ proc[p].status = 500
         /\ proc[p].data = <<>>
         /\ proc[p].storageOps = 0
         /\ Includes(proc[p].error, ProviderLabel(proc[p].aiProvider))
         /\ Includes(proc[p].error, "quota exceeded")

\* C20 witness: the query of the Groq provider failed
C20_GroqQueryFailed ==
  \E p \in Procs :
    /\ ProviderFailed(p)
    /\ proc[p].aiProvider = "groq"
    /\ proc[p].error = "Groq API error: quota exceeded"

\* a request whose prompt has been sent to a provider
Queried(p) == proc[p].route = PostRoute /\ proc[p].providerCalls > 0

\* C21: the prompt sent to the provider lists, in competitor mode, the main
\* brand and then the brands of the request, and otherwise the brands of the
\* request in their order (SpecApi).
C21_CompetitorPromptMainBrandFirst ==
  \A p \in Procs :
    Queried(p) =>
      IF Truthy(proc[p].body.isCompetitorMode)
        THEN proc[p].prompt =
               generateCompetitorPrompt(proc[p].body.category.v,
                                        proc[p].body.mainBrand.v,
                                        proc[p].body.brands.v)
        ELSE proc[p].prompt =
               generateVisibilityPrompt(proc[p].body.category.v,
                                        proc[p].body.brands.v)

\* C25: the run row of a request holds the prompt that was sent to the
\* provider, the response text and the provider queried (SpecApi).
C25_RunStoresSentPrompt ==
  \A p \in Procs :
    (Queried(p) /\ proc[p].promptRunId > 0) =>
      /\ runs[proc[p].promptRunId].prompt = proc[p].prompt
      /\ runs[proc[p].promptRunId].raw_response = proc[p].text
      /\ runs[proc[p].promptRunId].ai_provider = proc[p].aiProvider

\* a listing that was answered
Listed(p) ==
  proc[p].route = GetRoute /\ proc[p].pc = "done" /\ proc[p].status = 200

\* the stored run has a mention row of a brand row whose name is the filter,
\* letter case aside
RunHasBrand(runId, brandFilter) ==
  \E m \in 1..Len(mentions), b \in 1..Len(brands) :
    /\ mentions[m].prompt_run_id = runId
    /\ brands[b].id = mentions[m].brand_id
    /\ ToLowerCase(brands[b].name) = ToLowerCase(brandFilter)

\* C22: a listing is ordered newest run first, and under a brand filter every
\* run it holds has a brand whose stored name equals the filter, letter case
\* aside (SpecHistory).
C22_NewestFirstOnlyFilteredBrand ==
  \A p \in Procs :
    Listed(p) =>
      LET page == proc[p].data[1]
      IN  /\ \A i, j \in 1..Len(page) : i < j => page[i].id > page[j].id
          /\ Truthy(proc[p].query.brand) =>
               \A k \in 1..Len(page) : RunHasBrand(page[k].id, proc[p].query.brand.v)

\* the number of stored runs that have the brand
MatchingRuns(brandFilter) ==
  Cardinality({r \in 1..Len(runs) : RunHasBrand(runs[r].id, brandFilter)})

\* C30: under a brand filter the page holds limit runs whenever at least
\* offset + limit stored runs have the brand (SpecHistory).
C30_FilteredPageIsFull ==
  \A p \in Procs :
    (/\ Listed(p)
     /\ Truthy(proc[p].query.brand)
     /\ MatchingRuns(proc[p].query.brand.v)
          >= OffsetOf(proc[p].query) + LimitOf(proc[p].query))
      => Len(proc[p].data[1]) = LimitOf(proc[p].query)

\* an analysis request answered with its result
Returned(p) ==
  proc[p].route = PostRoute /\ proc[p].pc = "done" /\ proc[p].status = 200

\* the run row of the request and a mention row of that run for each of its
\* brands are stored
Persisted(p) ==
  /\ proc[p].promptRunId \in 1..Len(runs)
  /\ \A k \in 1..Len(proc[p].body.brands.v) :
       RunHasBrand(proc[p].promptRunId, proc[p].body.brands.v[k])

\* C23: the result carries a run id exactly when the run row and the mention
\* rows of all brands were stored, and none when a storage write of the
\* request failed (Spec).
C23_RunIdIffPersisted ==
  \A p \in Procs :
    Returned(p) =>
      /\ (proc[p].data[1].promptRunId > 0) <=> Persisted(p)
      /\ proc[p].storageError => proc[p].data[1].promptRunId = 0

\* the mention rows stored for a run
RunMentionRows(table, runId) ==
  {i \in 1..Len(table) : table[i].prompt_run_id = runId}

\* the step of request a that leaves it as b keeps the order of one analysis:
\* the run insert follows the one provider call and precedes every other
\* storage query, the k-th mention upsert follows the lookup of the k-th
\* brand of the list, and the answer follows the upsert of the last brand
OrderedStep(a, b) ==
  /\ runs' # runs =>
       /\ a.providerCalls = 1 /\ a.pc = "createRun"
       /\ a.storageOps = 0 /\ a.promptRunId = 0
       /\ Len(runs') = Len(runs) + 1
       /\ b.promptRunId = runs'[Len(runs')].id
  /\ brands' # brands => a.promptRunId \in 1..Len(runs)
  /\ b.brandId # a.brandId /\ b.brandId # 0 =>
       /\ a.promptRunId \in 1..Len(runs)
       /\ \E i \in 1..Len(brands') :
            /\ brands'[i].id = b.brandId
            /\ ToLowerCase(brands'[i].name) = ToLowerCase(a.body.brands.v[a.idx])
  /\ mentions' # mentions =>
       /\ a.promptRunId \in 1..Len(runs)
       /\ a.brandId # 0
       /\ b.idx = a.idx + 1
       /\ Cardinality(RunMentionRows(mentions, a.promptRunId)) = a.idx - 1
       /\ RunMentionRows(mentions', a.promptRunId)
            = RunMentionRows(mentions, a.promptRunId) \cup {Len(mentions')}
       /\ mentions'[Len(mentions')].brand_id = a.brandId
  /\ (a.pc # "done" /\ b.pc = "done" /\ b.status = 200) =>
       /\ mentions' # mentions
       /\ a.idx = Len(a.body.brands.v)
       /\ b.providerCalls = 1

\* C24: a successful analysis request makes one provider call, then one run
\* insert, then for each brand in list order one lookup followed by one
\* mention upsert; nothing is written before the provider has answered and
\* no mention before the run insert has returned (SpecHistory).
C24_OneCallOneRunThenBrandsInOrder ==
  [][\A p \in Procs :
       (proc'[p] # proc[p] /\ proc[p].route = PostRoute
        /\ proc'[p].route = PostRoute /\ proc[p].pc # "done")
         => OrderedStep(proc[p], proc'[p])]_vars

\* a request for two brands was answered after a run row and two mention rows
C24_TwoBrandsRecorded ==
  \E p \in Procs :
    /\ Returned(p)
    /\ proc[p].body.brands.v = <<"Bolt", "Dash">>
    /\ proc[p].promptRunId \in 1..Len(runs)
    /\ Cardinality(RunMentionRows(mentions, proc[p].promptRunId)) = 2

\* the brand name is nowhere in the text, letter case aside
Absent(text, brand) == ~Includes(ToLowerCase(text), ToLowerCase(brand))

\* C26: a brand whose name does not occur in the response text has count 0,
\* no context and no citations, and is scored 0% when tracked alone
\* (SpecAnalysis).
C26_AbsentBrandHasNothing ==
  \A p \in Procs :
    Analysed(p) =>
      \A k \in 1..Len(proc[p].mentions) :
        Absent(proc[p].text, proc[p].mentions[k].brand) =>
          /\ proc[p].mentions[k].count = 0
          /\ proc[p].mentions[k].context = <<>>
          /\ proc[p].mentions[k].citationUrls = <<>>
          /\ Len(proc[p].mentions) = 1 =>
               calculateVisibilityScore(proc[p].mentions, 1) = 0

\* C27: a brand with count 0 has no context sentence (SpecAnalysis).
C27_NoContextWithoutCount ==
  \A p \in Procs :
    Analysed(p) =>
      \A k \in 1..Len(proc[p].mentions) :
        proc[p].mentions[k].count = 0 => proc[p].mentions[k].context = <<>>

\* the request ended before any response text was received and not by the
\* validation of its body: the provider was unavailable or its query failed
EndedWithoutResponse(rec) ==
  /\ rec.route = PostRoute
  /\ rec.pc = "done"
  /\ rec.status # 400
  /\ rec.text = ""

\* C28: a request whose provider is unavailable or whose provider query fails
\* leaves the run, brand and mention rows as they were, has issued no storage
\* query and returns no result (SpecApi).
C28_FailedQueryWritesNothing ==
  [][\A p \in Procs :
       (proc'[p] # proc[p] /\ EndedWithoutResponse(proc'[p])) =>
         /\ store' = store
         /\ proc'[p].storageOps = 0
         /\ proc'[p].promptRunId = 0
         /\ proc'[p].status = 500
         /\ proc'[p].data = <<>>]_vars

\* a provider query failed after an earlier request had been recorded
C28_QueryFailedOverStoredRun ==
  \E p \in Procs :
    /\ EndedWithoutResponse(proc[p])
    /\ proc[p].providerCalls = 1
    /\ Len(runs) = 1

\* brand row b is a row for name, letter case aside
RowOf(b, name) == ToLowerCase(brands[b].name) = ToLowerCase(name)

\* the brand rows that have a mention row of the run are those of the first k
\* brands of the list
RecordedPrefix(runId, brandList, k) ==
  /\ \A i \in 1..k : RunHasBrand(runId, brandList[i])
  /\ \A m \in RunMentionRows(mentions, runId) :
       \E b \in 1..Len(brands), i \in 1..k :
         brands[b].id = mentions[m].brand_id /\ RowOf(b, brandList[i])

\* C29: no rollback. A request whose recording failed midway keeps its run row
\* and the mention rows written so far; the brands with a mention row of a run
\* are a prefix of the brand list of its request; every mention row refers to
\* a stored run and a stored brand (Spec).
C29_NoRollbackPrefixRecorded ==
  /\ \A p \in Procs :
       (Returned(p) /\ proc[p].storageError /\ proc[p].promptRunId > 0) =>
         /\ proc[p].promptRunId \in 1..Len(runs)
         /\ runs[proc[p].promptRunId].id = proc[p].promptRunId
         /\ RecordedPrefix(proc[p].promptRunId, proc[p].body.brands.v,
                           proc[p].idx - 1)
  /\ \A r \in 1..Len(runs) :
       \E k \in 0..Len(runLog[r].brands) :
         RecordedPrefix(runs[r].id, runLog[r].brands, k)
  /\ \A m \in 1..Len(mentions) :
       /\ \E r \in 1..Len(runs) : runs[r].id = mentions[m].prompt_run_id
       /\ \E b \in 1..Len(brands) : brands[b].id = mentions[m].brand_id

\* the recording of a request for two brands failed after the mention row of
\* the first brand was written
C29_FailedAfterFirstBrand ==
  \E p \in Procs :
    /\ Returned(p)
    /\ proc[p].storageError
    /\ Len(proc[p].body.brands.v) = 2
    /\ proc[p].idx = 2
    /\ Cardinality(RunMentionRows(mentions, proc[p].promptRunId)) = 1

====
